---- MODULE Spec2Model ----
(***************************************************************************)
(* A model of the option-greeks service: the ticker encoding and parsing   *)
(* (utils.py, main.py), the Delta and Theta estimators (delta.py,          *)
(* theta.py) and the premium-ratio extrapolator (premium_ratio.py).        *)
(*                                                                         *)
(* Numbers are exact rationals extended with NaN and the two infinities,   *)
(* with numpy's rules for them (x/0 is inf or NaN, NaN propagates, pandas  *)
(* means skip NaN).  IEEE rounding is not modelled.  Character strings are *)
(* sequences of one-character strings.  The least-squares solvers of       *)
(* scikit-learn are not re-implemented: a fit is represented by the design *)
(* matrix and target it was given, of which the coefficients are a         *)
(* function, together with the input validation that decides whether the   *)
(* fit raises.                                                             *)
(***************************************************************************)
EXTENDS Integers, Sequences, FiniteSets, TLC

VARIABLES
    pc,               \* position of the running call
    entry,            \* which entry point the run exercises
    req,              \* the form fields of calculate_greeks / the ticker inputs
    option_contract,  \* the synthesized contract identifier (main.py:39)
    parsed,           \* what parse_option_ticker returned for it
    merged_df,        \* the caller's merged table (main.py:58-64)
    pristine_df,      \* the merged table as it was when line 64 completed
    delta_results,    \* calculate_delta's outcome
    theta_results,    \* calculate_theta's outcome
    a_args,           \* the arguments analyze_option_premiums was called with
    underlying_aggs,  \* the underlying daily bars it fetched
    fetched,          \* the option tickers it requested, in order
    failed,           \* the ladder indices whose fetch raised
    bars,             \* how many option bars the client has returned
    data,             \* the joined records (premium_ratio.py:69-78)
    result,           \* what analyze_option_premiums returned
    outcome           \* running | returned | raised | http400 | http404

vars == <<pc, entry, req, option_contract, parsed, merged_df, pristine_df,
          delta_results, theta_results, a_args, underlying_aggs, fetched,
          failed, bars, data, result, outcome>>

tickerVars == <<req, option_contract, parsed>>
tableVars == <<merged_df, pristine_df, delta_results, theta_results>>
analyzeVars == <<a_args, underlying_aggs, fetched, failed, bars, data, result>>

(***************************************************************************)
(* Bounds of the model.                                                    *)
(***************************************************************************)
\* rows of the merged table handed to the estimators on their own
MaxRows == 3
\* rows of the merged table in a whole calculate_greeks request
MaxMinuteBars == 2
\* option bars the market-data client returns over one strike ladder
MaxBars == 3

None == [k |-> "none"]

(***************************************************************************)
(* Floating-point values: exact rationals, NaN, +inf and -inf.             *)
(***************************************************************************)
Abs(i) == IF i < 0 THEN -i ELSE i

Sign(i) == IF i < 0 THEN -1 ELSE IF i = 0 THEN 0 ELSE 1

RECURSIVE GCD(_, _)
GCD(a, b) == IF b = 0 THEN a ELSE GCD(b, a % b)

Fin(n, d) ==
    LET g == GCD(Abs(n), Abs(d))
        s == IF d < 0 THEN -1 ELSE 1
    IN  [k |-> "fin", n |-> (s * n) \div g, d |-> (s * d) \div g]

NaN == [k |-> "nan", n |-> 0, d |-> 1]

Inf(s) == [k |-> "inf", n |-> s, d |-> 1]

Zero == Fin(0, 1)

IsNaN(x) == x.k = "nan"

IsFinite(x) == x.k = "fin"

FSign(x) == Sign(x.n)

FNeg(x) == IF x.k = "nan" THEN NaN ELSE [x EXCEPT !.n = -x.n]

FAdd(x, y) ==
    IF IsNaN(x) \/ IsNaN(y) THEN NaN
    ELSE IF x.k = "inf" /\ y.k = "inf" THEN (IF x.n = y.n THEN x ELSE NaN)
    ELSE IF x.k = "inf" THEN x
    ELSE IF y.k = "inf" THEN y
    ELSE Fin(x.n * y.d + y.n * x.d, x.d * y.d)

FSub(x, y) == FAdd(x, FNeg(y))

FMul(x, y) ==
    IF IsNaN(x) \/ IsNaN(y) THEN NaN
    ELSE IF x.k = "inf" \/ y.k = "inf"
         THEN (IF FSign(x) * FSign(y) = 0 THEN NaN ELSE Inf(FSign(x) * FSign(y)))
    ELSE Fin(x.n * y.n, x.d * y.d)

\* numpy's true division: x/0 is +-inf, 0/0 and inf/inf are NaN; nothing raises
FDiv(x, y) ==
    IF IsNaN(x) \/ IsNaN(y) THEN NaN
    ELSE IF y.k = "inf" THEN (IF x.k = "inf" THEN NaN ELSE Zero)
    ELSE IF y.n = 0 THEN (IF FSign(x) = 0 THEN NaN ELSE Inf(FSign(x)))
    ELSE IF x.k = "inf" THEN Inf(FSign(x) * FSign(y))
    ELSE Fin(x.n * y.d, x.d * y.n)

\* x > y; any comparison with NaN is False
FGreater(x, y) ==
    IF IsNaN(x) \/ IsNaN(y) THEN FALSE
    ELSE IF x.k = "inf" THEN x.n = 1 /\ y # x
    ELSE IF y.k = "inf" THEN y.n = -1
    ELSE x.n * y.d > y.n * x.d

\* np.maximum: NaN propagates
FMaximum(x, y) ==
    IF IsNaN(x) \/ IsNaN(y) THEN NaN ELSE IF FGreater(y, x) THEN y ELSE x

RECURSIVE FSum(_)
FSum(s) == IF s = <<>> THEN Zero ELSE FAdd(Head(s), FSum(Tail(s)))

SelectNotNaN(s) == SelectSeq(s, LAMBDA x : ~IsNaN(x))

\* pandas Series.mean(): skips NaN; NaN for an empty (or all-NaN) series
Mean(s) ==
    LET t == SelectNotNaN(s)
    IN  IF t = <<>> THEN NaN ELSE FDiv(FSum(t), Fin(Len(t), 1))

(***************************************************************************)
(* Characters and strings.                                                 *)
(***************************************************************************)
LowerSeq == <<"a", "b", "c", "d", "e", "f", "g", "h", "i", "j", "k", "l", "m",
              "n", "o", "p", "q", "r", "s", "t", "u", "v", "w", "x", "y", "z">>

UpperSeq == <<"A", "B", "C", "D", "E", "F", "G", "H", "I", "J", "K", "L", "M",
              "N", "O", "P", "Q", "R", "S", "T", "U", "V", "W", "X", "Y", "Z">>

DigitSeq == <<"0", "1", "2", "3", "4", "5", "6", "7", "8", "9">>

IsUpperChar(c) == \E i \in 1..26 : UpperSeq[i] = c

IsDigitChar(c) == \E i \in 1..10 : DigitSeq[i] = c

UpperChar(c) ==
    IF \E i \in 1..26 : LowerSeq[i] = c
    THEN UpperSeq[CHOOSE i \in 1..26 : LowerSeq[i] = c] ELSE c

LowerChar(c) ==
    IF \E i \in 1..26 : UpperSeq[i] = c
    THEN LowerSeq[CHOOSE i \in 1..26 : UpperSeq[i] = c] ELSE c

\* str.upper() and str.lower()
Upper(s) == [i \in 1..Len(s) |-> UpperChar(s[i])]

Lower(s) == [i \in 1..Len(s) |-> LowerChar(s[i])]

DigitVal(c) == (CHOOSE i \in 1..10 : DigitSeq[i] = c) - 1

RECURSIVE Digits(_)
Digits(n) == IF n < 10 THEN <<DigitSeq[n + 1]>>
             ELSE Digits(n \div 10) \o <<DigitSeq[(n % 10) + 1]>>

RECURSIVE Zeros(_)
Zeros(k) == IF k <= 0 THEN <<>> ELSE <<"0">> \o Zeros(k - 1)

\* format(n, "0{w}d") for n >= 0: at least w digits, more when n needs them
ZeroPad(n, w) == Zeros(w - Len(Digits(n))) \o Digits(n)

RECURSIVE ParseInt(_)
ParseInt(s) == IF s = <<>> THEN 0
               ELSE 10 * ParseInt(SubSeq(s, 1, Len(s) - 1)) + DigitVal(s[Len(s)])

\* int(x) of a non-negative float: truncation
IntOf(x) == x.n \div x.d

StrCall == <<"c", "a", "l", "l">>

StrPut == <<"p", "u", "t">>

(***************************************************************************)
(* Dates.                                                                  *)
(***************************************************************************)
Date(y, m, d) == [y |-> y, m |-> m, d |-> d]

IsLeap(y) == (y % 4 = 0 /\ y % 100 # 0) \/ y % 400 = 0

DaysInMonth(y, m) ==
    IF m = 2 THEN (IF IsLeap(y) THEN 29 ELSE 28)
    ELSE IF m \in {4, 6, 9, 11} THEN 30 ELSE 31

\* strftime('%y%m%d')
StrfYYMMDD(dt) == ZeroPad(dt.y % 100, 2) \o ZeroPad(dt.m, 2) \o ZeroPad(dt.d, 2)

\* the century pivot of strptime's %y: 69..99 are 1969..1999, 00..68 are 2000..2068
PivotYear == 69

\* datetime.strptime(s, '%y%m%d') of six digits: a date, or None (ValueError)
StrpYYMMDD(s) ==
    LET yy == ParseInt(SubSeq(s, 1, 2))
        mm == ParseInt(SubSeq(s, 3, 4))
        dd == ParseInt(SubSeq(s, 5, 6))
        y  == IF yy >= PivotYear THEN 1900 + yy ELSE 2000 + yy
    IN  IF mm \in 1..12 /\ dd >= 1 /\ dd <= DaysInMonth(y, mm)
        THEN Date(y, mm, dd) ELSE None

(***************************************************************************)
(* The contract identifier: synthesis and parse_option_ticker.             *)
(***************************************************************************)
\* the multiplier the synthesized identifier applies to the strike
StrikeScale == 1000

\* the divisor parse_option_ticker applies to the eight strike digits
StrikeDivisor == 10000

StrikeWidth == 8

DateWidth == 6

\* int(strike*1000) formatted 08d
EncodeStrike(strike) == ZeroPad(IntOf(FMul(strike, Fin(StrikeScale, 1))), StrikeWidth)

\* main.py:39: the type is the first character of the form field, upper-cased
OptionContract(ticker, expiration_date, option_type, strike) ==
    <<"O", ":">> \o ticker \o StrfYYMMDD(expiration_date)
        \o <<UpperChar(option_type[1])>> \o EncodeStrike(strike)

\* premium_ratio.py:57: the type is the whole argument, upper-cased
LadderTicker(underlying_symbol, expiration_date, option_type, strike) ==
    <<"O", ":">> \o underlying_symbol \o StrfYYMMDD(expiration_date)
        \o Upper(option_type) \o EncodeStrike(strike)

StripPrefix(t) ==
    IF Len(t) >= 2 /\ t[1] = "O" /\ t[2] = ":" THEN SubSeq(t, 3, Len(t)) ELSE t

\* length of the longest prefix of upper-case letters
RECURSIVE LetterRun(_)
LetterRun(s) == IF s # <<>> /\ IsUpperChar(Head(s)) THEN 1 + LetterRun(Tail(s)) ELSE 0

AllDigits(s) == \A i \in 1..Len(s) : IsDigitChar(s[i])

\* re.match(r'^([A-Z]+)(\d{6})([CP])(\d{8})$', s): the groups, or None
MatchTicker(s) ==
    LET l == LetterRun(s)
    IN  IF /\ l >= 1
           /\ Len(s) = l + DateWidth + 1 + StrikeWidth
           /\ AllDigits(SubSeq(s, l + 1, l + DateWidth))
           /\ s[l + DateWidth + 1] \in {"C", "P"}
           /\ AllDigits(SubSeq(s, l + DateWidth + 2, Len(s)))
        THEN [symbol |-> SubSeq(s, 1, l),
              date   |-> SubSeq(s, l + 1, l + DateWidth),
              type   |-> s[l + DateWidth + 1],
              strike |-> SubSeq(s, l + DateWidth + 2, Len(s))]
        ELSE None

ParseStrike(digits) == Fin(ParseInt(digits), StrikeDivisor)

\* parse_option_ticker: the four results, or None when it raises ValueError
parse_option_ticker(option_ticker) ==
    LET m == MatchTicker(StripPrefix(option_ticker))
    IN  IF m = None THEN None
        ELSE IF StrpYYMMDD(m.date) = None THEN None
        ELSE [underlying_symbol |-> m.symbol,
              expiration_date   |-> StrpYYMMDD(m.date),
              option_type       |-> <<m.type>>,
              strike_price      |-> ParseStrike(m.strike)]

(***************************************************************************)
(* Tables (pandas DataFrames): an index of timestamps, in hours since the  *)
(* epoch, a set of column names, and one row per timestamp mapping each    *)
(* column to a value.                                                      *)
(***************************************************************************)
Table(index, cols, rows) == [index |-> index, cols |-> cols, rows |-> rows]

NRows(t) == Len(t.rows)

Column(t, c) == [i \in 1..NRows(t) |-> t.rows[i][c]]

\* df[name] = vals: adds the column, or overwrites it, in place
WithColumn(t, name, vals) ==
    Table(t.index, t.cols \cup {name},
          [i \in 1..NRows(t) |->
              [c \in t.cols \cup {name} |-> IF c = name THEN vals[i] ELSE t.rows[i][c]]])

\* Series.diff(): NaN in the first row
Diff(s) == [i \in 1..Len(s) |-> IF i = 1 THEN NaN ELSE FSub(s[i], s[i - 1])]

RowHasNaN(t, i) == \E c \in t.cols : IsNaN(t.rows[i][c])

RECURSIVE KeepRows(_, _, _)
KeepRows(s, keep, i) ==
    IF i > Len(s) THEN <<>>
    ELSE (IF i \in keep THEN <<s[i]>> ELSE <<>>) \o KeepRows(s, keep, i + 1)

\* DataFrame.dropna(): drops every row holding NaN in any column; inf is kept
dropna(t) ==
    LET keep == {i \in 1..NRows(t) : ~RowHasNaN(t, i)}
    IN  Table(KeepRows(t.index, keep, 1), t.cols, KeepRows(t.rows, keep, 1))

\* X = df[features]: the design matrix, one sequence of values per row
Design(t, features) ==
    [i \in 1..NRows(t) |-> [j \in 1..Len(features) |-> t.rows[i][features[j]]]]

HoursPerDay == 24

\* the epoch, 1970-01-01, was a Thursday; pandas counts Monday as 0
EpochWeekday == 3

\* DatetimeIndex.dayofweek
dayofweek(ts) == (EpochWeekday + ts \div HoursPerDay) % 7

DayCols == <<"day_0", "day_1", "day_2", "day_3", "day_4", "day_5", "day_6">>

\* pd.get_dummies(df['day_of_week'], prefix='day'): one indicator column per
\* day present in the table, in increasing order of the day
DummyColumns(t) ==
    LET present == {dayofweek(t.index[i]) : i \in 1..NRows(t)}
    IN  SelectSeq(DayCols, LAMBDA c : \E d \in present : DayCols[d + 1] = c)

RECURSIVE WithDummies(_, _)
WithDummies(t, cs) ==
    IF cs = <<>> THEN t
    ELSE WithDummies(
            WithColumn(t, Head(cs),
                [i \in 1..NRows(t) |->
                    IF DayCols[dayofweek(t.index[i]) + 1] = Head(cs)
                    THEN Fin(1, 1) ELSE Zero]),
            Tail(cs))

\* days from 1970-01-01 to the date (proleptic Gregorian calendar)
EpochDays(dt) ==
    LET y   == IF dt.m <= 2 THEN dt.y - 1 ELSE dt.y
        era == y \div 400
        yoe == y - era * 400
        mp  == (dt.m + 9) % 12
        doy == (153 * mp + 2) \div 5 + dt.d - 1
        doe == yoe * 365 + yoe \div 4 - yoe \div 100 + doy
    IN  era * 146097 + doe - 719468

\* utils.calculate_time_to_expiration: hours from each timestamp to midnight
\* of the expiration date
calculate_time_to_expiration(expiration_date, index) ==
    [i \in 1..Len(index) |->
        Fin(EpochDays(expiration_date) * HoursPerDay - index[i], 1)]

(***************************************************************************)
(* LinearRegression().fit(X, y): scikit-learn validates its input and      *)
(* raises ValueError for an empty sample and for any non-finite value;     *)
(* otherwise it returns a least-squares solution, also when the rows are   *)
(* no more than the columns (the minimum-norm solution).  It has no        *)
(* "degenerate fit" outcome.                                               *)
(***************************************************************************)
AllFinite(X, y) ==
    /\ \A i \in 1..Len(X) : \A j \in 1..Len(X[i]) : IsFinite(X[i][j])
    /\ \A i \in 1..Len(y) : IsFinite(y[i])

LinearRegressionFit(features, X, y) ==
    [outcome  |-> IF Len(X) = 0 \/ ~AllFinite(X, y) THEN "raised" ELSE "fitted",
     error    |-> IF Len(X) = 0 THEN "ValueError: 0 samples"
                  ELSE IF ~AllFinite(X, y) THEN "ValueError: non-finite input"
                  ELSE "",
     features |-> features,
     X        |-> X,
     y        |-> y]

DeltaFeatures == <<"delta_underlying_price", "time_to_expiration", "moneyness",
                   "volume_ratio">>

\* delta.py:12-18: the columns calculate_delta writes into the caller's table
DeltaPrepare(df, strike_price) ==
    LET t1 == WithColumn(df, "delta_underlying_price", Diff(Column(df, "underlying_price")))
        t2 == WithColumn(t1, "delta_option_price", Diff(Column(df, "option_price")))
        t3 == WithColumn(t2, "moneyness",
                [i \in 1..NRows(df) |-> FDiv(df.rows[i]["underlying_price"], strike_price)])
        t4 == WithColumn(t3, "volume_ratio",
                [i \in 1..NRows(df) |->
                    FDiv(df.rows[i]["option_volume"], df.rows[i]["underlying_volume"])])
    IN  WithColumn(t4, "day_of_week",
                [i \in 1..NRows(df) |-> Fin(dayofweek(df.index[i]), 1)])

\* delta.py:20-22: pd.concat builds a new table, and only that one is dropna'd
DeltaLocal(prepared) == dropna(WithDummies(prepared, DummyColumns(prepared)))

\* calculate_delta: the table the caller is left with, and the fit
calculate_delta(df, option_type, strike_price) ==
    LET prepared == DeltaPrepare(df, strike_price)
        local    == DeltaLocal(prepared)
        features == DeltaFeatures \o DummyColumns(prepared)
    IN  [caller  |-> prepared,
         results |-> LinearRegressionFit(features, Design(local, features),
                                         Column(local, "delta_option_price"))]

ThetaFeatures == <<"delta_underlying_price", "delta_time">>

\* theta.py:15-17: the columns calculate_theta writes into the caller's table
ThetaPrepare(df) ==
    LET t1 == WithColumn(df, "delta_underlying_price", Diff(Column(df, "underlying_price")))
        t2 == WithColumn(t1, "delta_option_price", Diff(Column(df, "option_price")))
        d  == Diff(Column(df, "time_to_expiration"))
    IN  WithColumn(t2, "delta_time", [i \in 1..Len(d) |-> FNeg(d[i])])

\* calculate_theta: dropna(inplace=True), theta.py:18, acts on the caller's
\* table itself
calculate_theta(df) ==
    LET kept == dropna(ThetaPrepare(df))
        fit  == LinearRegressionFit(ThetaFeatures, Design(kept, ThetaFeatures),
                                    Column(kept, "delta_option_price"))
    IN  [caller  |-> kept,
         results |-> [outcome  |-> fit.outcome,
                      error    |-> fit.error,
                      features |-> fit.features,
                      X        |-> fit.X,
                      y        |-> fit.y,
                      index    |-> kept.index,
                      average_option_price |-> Mean(Column(kept, "option_price"))]]

NoResults == [outcome |-> "none"]

EmptyTable == Table(<<>>, {}, <<>>)

(***************************************************************************)
(* The premium-ratio extrapolator (premium_ratio.py).                      *)
(***************************************************************************)
\* range(-5, 6)
LadderLo == -5

LadderHi == 5

\* the ladder's step, 0.05, is 1/LadderStepInv of the current price
LadderStepInv == 20

LadderSize == LadderHi - LadderLo + 1

\* premium_ratio.py:52: the k-th strike, k = 1..11
LadderStrike(current_price, k) ==
    FMul(current_price,
         FAdd(Fin(1, 1), FMul(Fin(LadderLo + k - 1, 1), Fin(1, LadderStepInv))))

HasDate(aggs, date) == \E i \in 1..Len(aggs) : aggs[i].date = date

\* underlying_prices[date]: a dict keeps the last value written for a key
PriceOn(aggs, date) ==
    aggs[CHOOSE i \in 1..Len(aggs) :
            /\ aggs[i].date = date
            /\ \A j \in (i + 1)..Len(aggs) : aggs[j].date # date].close

\* the emptiness test of premium_ratio.py:40 lost: a price of 0 for no bars
CurrentPriceUnchecked(aggs) == IF aggs # <<>> THEN aggs[Len(aggs)].close ELSE Zero

\* premium_ratio.py:40
CurrentPrice(aggs) == IF aggs # <<>> THEN aggs[Len(aggs)].close ELSE None

\* premium_ratio.py:42-47 and 83-88: the empty result
EmptyResult == [average_premium_ratio |-> NaN, average_premium |-> NaN, data |-> <<>>]

NoResult == [average_premium_ratio |-> None, average_premium |-> None, data |-> <<>>]

\* premium_ratio.py:69-78: the inner join of one strike's bars with the
\* underlying closes
RECURSIVE JoinBars(_, _, _, _)
JoinBars(option_aggs, aggs, strike, option_type) ==
    IF option_aggs = <<>> THEN <<>>
    ELSE (IF HasDate(aggs, Head(option_aggs).date)
          THEN <<[date             |-> Head(option_aggs).date,
                  underlying_price |-> PriceOn(aggs, Head(option_aggs).date),
                  option_price     |-> Head(option_aggs).close,
                  strike           |-> strike,
                  type             |-> Lower(option_type)]>>
          ELSE <<>>)
         \o JoinBars(Tail(option_aggs), aggs, strike, option_type)

\* premium_ratio.py:91-95
IntrinsicValue(r) ==
    IF r.type = StrCall
    THEN FMaximum(FSub(r.underlying_price, r.strike), Zero)
    ELSE FMaximum(FSub(r.strike, r.underlying_price), Zero)

\* premium_ratio.py:98
ExtrinsicValue(r) == FSub(r.option_price, IntrinsicValue(r))

\* premium_ratio.py:99: computed for every row, whatever its intrinsic value
PremiumRatio(r) == FDiv(r.option_price, IntrinsicValue(r))

\* premium_ratio.py:91-99: options_df with its three computed columns
OptionsFrame(records) ==
    [i \in 1..Len(records) |->
        [date             |-> records[i].date,
         underlying_price |-> records[i].underlying_price,
         option_price     |-> records[i].option_price,
         strike           |-> records[i].strike,
         type             |-> records[i].type,
         intrinsic_value  |-> IntrinsicValue(records[i]),
         extrinsic_value  |-> ExtrinsicValue(records[i]),
         premium_ratio    |-> PremiumRatio(records[i])]]

\* premium_ratio.py:102-104
ItmOptions(df) == SelectSeq(df, LAMBDA r : FGreater(r.intrinsic_value, Zero))

OtmOptions(df) == SelectSeq(df, LAMBDA r : ~FGreater(r.intrinsic_value, Zero))

Strikes(df) == [i \in 1..Len(df) |-> df[i].strike]

Ratios(df) == [i \in 1..Len(df) |-> df[i].premium_ratio]

Intrinsics(df) == [i \in 1..Len(df) |-> df[i].intrinsic_value]

Prices(df) == [i \in 1..Len(df) |-> df[i].option_price]

\* scipy.stats.linregress(x, y) for len(x) >= 1: ValueError when several x
\* are all identical; slope = cov(x, y)/var(x) (0/0 = NaN for a single point)
linregress(x, y) ==
    LET n      == Len(x)
        xmean  == FDiv(FSum(x), Fin(n, 1))
        ymean  == FDiv(FSum(y), Fin(n, 1))
        ssxm   == FDiv(FSum([i \in 1..n |->
                        FMul(FSub(x[i], xmean), FSub(x[i], xmean))]), Fin(n, 1))
        ssxym  == FDiv(FSum([i \in 1..n |->
                        FMul(FSub(x[i], xmean), FSub(y[i], ymean))]), Fin(n, 1))
        slope  == FDiv(ssxym, ssxm)
    IN  IF n > 1 /\ \A i \in 1..n : x[i] = x[1]
        THEN [raised |-> TRUE, slope |-> NaN, intercept |-> NaN]
        ELSE [raised |-> FALSE, slope |-> slope,
              intercept |-> FSub(ymean, FMul(slope, xmean))]

\* premium_ratio.py:110-120
AvgEstimatedPremiumOtm(itm, otm) ==
    IF itm # <<>> /\ otm # <<>>
    THEN LET model == linregress(Strikes(itm), Ratios(itm))
         IN  Mean([i \in 1..Len(otm) |->
                    FMul(FAdd(FMul(model.slope, otm[i].strike), model.intercept),
                         otm[i].intrinsic_value)])
    ELSE NaN

\* premium_ratio.py:124-125
Weight(part, df) == IF Len(df) > 0 THEN Fin(Len(part), Len(df)) ELSE Zero

\* the blend with its OTM term left out when there is no OTM record
AveragePremiumRatioGuarded(df) ==
    LET itm == ItmOptions(df)
        otm == OtmOptions(df)
    IN  IF otm = <<>> THEN Mean(Ratios(itm))
        ELSE FAdd(FMul(Mean(Ratios(itm)), Weight(itm, df)),
                  FMul(FDiv(AvgEstimatedPremiumOtm(itm, otm), Mean(Intrinsics(otm))),
                       Weight(otm, df)))

\* premium_ratio.py:127-128
AveragePremiumRatio(df) ==
    LET itm == ItmOptions(df)
        otm == OtmOptions(df)
    IN  FAdd(FMul(Mean(Ratios(itm)), Weight(itm, df)),
             FMul(FDiv(AvgEstimatedPremiumOtm(itm, otm), Mean(Intrinsics(otm))),
                  Weight(otm, df)))

\* premium_ratio.py:130-131
AveragePremium(df) ==
    LET itm == ItmOptions(df)
        otm == OtmOptions(df)
    IN  FAdd(FMul(Mean(Prices(itm)), Weight(itm, df)),
             FMul(AvgEstimatedPremiumOtm(itm, otm), Weight(otm, df)))

\* whether the regression of premium_ratio.py:113 raises
RegressionRaises(df) ==
    /\ ItmOptions(df) # <<>>
    /\ OtmOptions(df) # <<>>
    /\ linregress(Strikes(ItmOptions(df)), Ratios(ItmOptions(df))).raised

\* premium_ratio.py:80-137: what the function returns for the joined records
PremiumResult(records) ==
    IF records = <<>> THEN EmptyResult
    ELSE [average_premium_ratio |-> AveragePremiumRatio(OptionsFrame(records)),
          average_premium       |-> AveragePremium(OptionsFrame(records)),
          data                  |-> OptionsFrame(records)]

(***************************************************************************)
(* What the environment supplies: the form fields, the minute bars and the *)
(* daily bars of the market-data client.                                   *)
(***************************************************************************)
TSLA == <<"T", "S", "L", "A">>

SPY == <<"S", "P", "Y">>

ExpirationDates ==
    {Date(2021, 9, 17), Date(2024, 2, 29), Date(1999, 12, 31), Date(2069, 1, 15)}

\* strikes that are whole multiples of 0.001
StrikePrices == {Fin(700, 1), Fin(3, 2), Fin(1, 1000), Fin(250050, 100), Fin(12345, 1000)}

NoReq == [ticker |-> <<>>, strike |-> None, expiration |-> None, option_type |-> <<>>]

NoArgs == [underlying_symbol |-> <<>>, expiration_date |-> None, option_type |-> <<>>]

\* the inputs of the ticker round trip
TickerInputs ==
    [ticker : {TSLA, SPY, <<"F">>}, strike : StrikePrices,
     expiration : ExpirationDates, option_type : {StrCall, StrPut}]

\* the form fields of a calculate_greeks request
GreeksRequests ==
    [ticker : {TSLA, Lower(TSLA)}, strike : {Fin(700, 1)},
     expiration : {Date(2021, 9, 17)}, option_type : {StrCall, StrPut}]

\* direct calls of analyze_option_premiums, as its docstring describes them
AnalyzeCalls ==
    [underlying_symbol : {TSLA}, expiration_date : {Date(2021, 9, 17)},
     option_type : {StrCall, StrPut}]

\* (option_volume, underlying_volume) of one minute bar
VolumeChoices == {<<5, 10>>, <<0, 0>>, <<5, 0>>}

\* the first minute bar: 22:00 on Thursday 2021-09-09; one bar per hour after it
FirstBarHour == EpochDays(Date(2021, 9, 9)) * HoursPerDay + 22

UnderlyingClose(i) == Fin(100 + ((i * i) % 5), 1)

OptionClose(i) == Fin(10 + ((3 * i) % 4), 1)

\* main.py:58: the inner join of the two frames, n rows with the given volumes
JoinedTable(n, vols) ==
    Table([i \in 1..n |-> FirstBarHour + i - 1],
          {"underlying_price", "underlying_volume", "option_price", "option_volume"},
          [i \in 1..n |->
              [c \in {"underlying_price", "underlying_volume", "option_price",
                      "option_volume"} |->
                  CASE c = "underlying_price"  -> UnderlyingClose(i)
                    [] c = "option_price"      -> OptionClose(i)
                    [] c = "option_volume"     -> Fin(vols[i][1], 1)
                    [] c = "underlying_volume" -> Fin(vols[i][2], 1)]])

\* main.py:64
WithTimeToExpiration(t, expiration_date) ==
    WithColumn(t, "time_to_expiration",
               calculate_time_to_expiration(expiration_date, t.index))

\* the underlying's daily bars: none; two days; one day the options never trade
UnderlyingSeries ==
    {<<>>,
     <<[date |-> 1, close |-> Fin(110, 1)], [date |-> 2, close |-> Fin(100, 1)]>>,
     <<[date |-> 1, close |-> Fin(90, 1)], [date |-> 2, close |-> Fin(100, 1)]>>,
     <<[date |-> 2, close |-> Fin(100, 1)]>>}

\* the daily bars of one option contract, when it has any: one day, or two
OptionSeries ==
    {<<[date |-> 1, close |-> Fin(12, 1)]>>,
     <<[date |-> 1, close |-> Fin(12, 1)], [date |-> 2, close |-> Fin(8, 1)]>>}

(***************************************************************************)
(* calculate_greeks (main.py).                                             *)
(***************************************************************************)
Finished(how) == pc' = "done" /\ outcome' = how

\* main.py:38-39
BuildContract ==
    /\ pc = "build"
    /\ option_contract' = OptionContract(req.ticker, req.expiration,
                                         req.option_type, req.strike)
    /\ pc' = "parse"
    /\ UNCHANGED <<entry, req, parsed, tableVars, analyzeVars, outcome>>

\* main.py:42-45: a ValueError becomes HTTP 400
ParseContract ==
    /\ pc = "parse"
    /\ parsed' = parse_option_ticker(option_contract)
    /\ IF parsed' = None THEN Finished("http400")
       ELSE pc' = "fetch" /\ UNCHANGED outcome
    /\ UNCHANGED <<entry, req, option_contract, tableVars, analyzeVars>>

\* main.py:54-64: the two fetches, HTTP 404 when either is empty, the join
\* and the time_to_expiration column
FetchData ==
    /\ pc = "fetch"
    /\ \E nu \in 0..MaxMinuteBars, no \in 0..MaxMinuteBars :
          IF nu = 0 \/ no = 0
          THEN Finished("http404") /\ UNCHANGED <<merged_df, pristine_df>>
          ELSE \E vols \in [1..(IF nu < no THEN nu ELSE no) -> VolumeChoices] :
                  /\ merged_df' = WithTimeToExpiration(
                                      JoinedTable(IF nu < no THEN nu ELSE no, vols),
                                      parsed.expiration_date)
                  /\ pristine_df' = merged_df'
                  /\ pc' = "delta"
                  /\ UNCHANGED outcome
    /\ UNCHANGED <<entry, tickerVars, delta_results, theta_results, analyzeVars>>

\* main.py:65: calculate_delta writes its columns into the caller's table
\* before it fits
CalculateDelta ==
    /\ pc = "delta"
    /\ LET r == calculate_delta(merged_df, parsed.option_type, parsed.strike_price)
       IN  /\ merged_df' = r.caller
           /\ delta_results' = r.results
           /\ IF r.results.outcome = "raised" THEN Finished("raised")
              ELSE pc' = "theta" /\ UNCHANGED outcome
    /\ UNCHANGED <<entry, tickerVars, pristine_df, theta_results, analyzeVars>>

\* main.py:66: calculate_theta drops rows of the caller's table in place
CalculateTheta ==
    /\ pc = "theta"
    /\ LET r == calculate_theta(merged_df)
       IN  /\ merged_df' = r.caller
           /\ theta_results' = r.results
           /\ IF r.results.outcome = "raised" THEN Finished("raised")
              ELSE pc' = "analyze_call" /\ UNCHANGED outcome
    /\ UNCHANGED <<entry, tickerVars, pristine_df, delta_results, analyzeVars>>

\* main.py:69-74
CallAnalyze ==
    /\ pc = "analyze_call"
    /\ a_args' = [underlying_symbol |-> Upper(req.ticker),
                  expiration_date   |-> parsed.expiration_date,
                  option_type       |-> Lower(parsed.option_type)]
    /\ pc' = "underlying"
    /\ UNCHANGED <<entry, tickerVars, tableVars, underlying_aggs, fetched, failed,
                   bars, data, result, outcome>>

\* main.py:76-95
Respond ==
    /\ pc = "respond"
    /\ Finished("returned")
    /\ UNCHANGED <<entry, tickerVars, tableVars, analyzeVars>>

(***************************************************************************)
(* analyze_option_premiums (premium_ratio.py).                             *)
(***************************************************************************)
\* the function returns to calculate_greeks, or to its direct caller
Returned == IF entry = "calculate_greeks" THEN pc' = "respond" /\ UNCHANGED outcome
            ELSE Finished("returned")

\* premium_ratio.py:26-47: the underlying fetch and the early return
AnalyzeFetchUnderlying ==
    /\ pc = "underlying"
    /\ \E aggs \in UnderlyingSeries :
          /\ underlying_aggs' = aggs
          /\ IF CurrentPrice(aggs) = None
             THEN result' = EmptyResult /\ Returned
             ELSE pc' = "ladder" /\ UNCHANGED <<result, outcome>>
    /\ UNCHANGED <<entry, tickerVars, tableVars, a_args, fetched, failed, bars, data>>

\* premium_ratio.py:55-78: one turn of the loop over the ladder.  The client
\* returns no bar, some bars, or raises; nothing in the loop catches.
AnalyzeFetchOption ==
    /\ pc = "ladder"
    /\ Len(fetched) < LadderSize
    /\ LET k      == Len(fetched) + 1
           strike == LadderStrike(CurrentPrice(underlying_aggs), k)
       IN  /\ fetched' = Append(fetched,
                            LadderTicker(a_args.underlying_symbol, a_args.expiration_date,
                                         a_args.option_type, strike))
           /\ \E reply \in {"empty", "bars", "raise"} :
                 CASE reply = "empty" ->
                        UNCHANGED <<pc, outcome, failed, bars, data>>
                   [] reply = "bars" ->
                        /\ \E option_aggs \in OptionSeries :
                              /\ bars + Len(option_aggs) <= MaxBars
                              /\ bars' = bars + Len(option_aggs)
                              /\ data' = data \o JoinBars(option_aggs, underlying_aggs,
                                                          strike, a_args.option_type)
                        /\ UNCHANGED <<pc, outcome, failed>>
                   [] reply = "raise" ->
                        /\ failed' = failed \cup {k}
                        /\ data' = <<>>
                        /\ Finished("raised")
                        /\ UNCHANGED bars
    /\ UNCHANGED <<entry, tickerVars, tableVars, a_args, underlying_aggs, result>>

\* premium_ratio.py:80-137: after the loop
AnalyzeFinish ==
    /\ pc = "ladder"
    /\ Len(fetched) = LadderSize
    /\ IF data # <<>> /\ RegressionRaises(OptionsFrame(data))
       THEN Finished("raised") /\ UNCHANGED result
       ELSE result' = PremiumResult(data) /\ Returned
    /\ UNCHANGED <<entry, tickerVars, tableVars, a_args, underlying_aggs, fetched,
                   failed, bars, data>>

(***************************************************************************)
(* Specifications.                                                         *)
(***************************************************************************)
Idle ==
    /\ option_contract = <<>>
    /\ parsed = None
    /\ merged_df = EmptyTable
    /\ pristine_df = EmptyTable
    /\ delta_results = NoResults
    /\ theta_results = NoResults
    /\ underlying_aggs = <<>>
    /\ fetched = <<>>
    /\ failed = {}
    /\ bars = 0
    /\ data = <<>>
    /\ result = NoResult
    /\ outcome = "running"

\* a calculate_greeks request, or a direct call of analyze_option_premiums
Init ==
    /\ Idle
    /\ entry \in {"calculate_greeks", "analyze_option_premiums"}
    /\ IF entry = "calculate_greeks"
       THEN req \in GreeksRequests /\ a_args = NoArgs /\ pc = "build"
       ELSE req = NoReq /\ a_args \in AnalyzeCalls /\ pc = "underlying"

Next ==
    \/ BuildContract
    \/ ParseContract
    \/ FetchData
    \/ CalculateDelta
    \/ CalculateTheta
    \/ CallAnalyze
    \/ Respond
    \/ AnalyzeFetchUnderlying
    \/ AnalyzeFetchOption
    \/ AnalyzeFinish

Spec == Init /\ [][Next]_vars

\* the ticker round trip alone: main.py:38-45 on a range of form fields
InitTicker ==
    /\ Idle
    /\ entry = "calculate_greeks"
    /\ req \in TickerInputs
    /\ a_args = NoArgs
    /\ pc = "build"

NextTicker == BuildContract \/ ParseContract

SpecTicker == InitTicker /\ [][NextTicker]_vars

\* the requests whose merged tables the estimators are run on
EstimatorRequests ==
    [ticker : {TSLA}, strike : {Fin(700, 1)},
     expiration : {Date(2021, 9, 17), Date(2024, 2, 29)}, option_type : {StrCall}]

\* the two estimators alone: main.py:65-66 on a range of merged tables, each as
\* main.py:58-64 leaves it (an inner join may have no rows at all)
InitEstimators ==
    /\ entry = "calculate_greeks"
    /\ req \in EstimatorRequests
    /\ option_contract = OptionContract(req.ticker, req.expiration,
                                        req.option_type, req.strike)
    /\ parsed = parse_option_ticker(option_contract)
    /\ \E n \in 0..MaxRows : \E vols \in [1..n -> VolumeChoices] :
          merged_df = WithTimeToExpiration(JoinedTable(n, vols), parsed.expiration_date)
    /\ pristine_df = merged_df
    /\ delta_results = NoResults
    /\ theta_results = NoResults
    /\ a_args = NoArgs
    /\ underlying_aggs = <<>>
    /\ fetched = <<>>
    /\ failed = {}
    /\ bars = 0
    /\ data = <<>>
    /\ result = NoResult
    /\ outcome = "running"
    /\ pc = "delta"

NextEstimators == CalculateDelta \/ CalculateTheta

SpecEstimators == InitEstimators /\ [][NextEstimators]_vars

(***************************************************************************)
(* The claims.                                                             *)
(***************************************************************************)
ContractParsed == pc # "build" /\ pc # "parse"

\* C1: for every upper-case symbol, expiration date, option type and strike
\* that is a multiple of 0.001, the identifier calculate_greeks synthesizes is
\* accepted by parse_option_ticker and parses back to the same symbol, the
\* same expiration date, the same option type (C for call, P for put) and the
\* same strike_price.
C1_TickerRoundTrip ==
    ContractParsed =>
        /\ parsed # None
        /\ parsed.underlying_symbol = req.ticker
        /\ parsed.expiration_date = req.expiration
        /\ parsed.option_type = <<UpperChar(req.option_type[1])>>
        /\ parsed.strike_price = req.strike

AnalyzeReturned == result # NoResult

\* the option type of the contract the request names
RequestedType == IF entry = "calculate_greeks" THEN req.option_type ELSE a_args.option_type

ExpectedIntrinsic(r) ==
    IF Lower(RequestedType) = StrCall
    THEN FMaximum(FSub(r.underlying_price, r.strike), Zero)
    ELSE FMaximum(FSub(r.strike, r.underlying_price), Zero)

\* C2: every joined record analyze_option_premiums returns, also when it is
\* called by calculate_greeks with the parsed option type, has intrinsic_value
\* max(underlying - strike, 0) for a requested call and max(strike -
\* underlying, 0) for a requested put, and extrinsic_value = option_price -
\* intrinsic_value.
C2_IntrinsicFollowsRequestedType ==
    AnalyzeReturned =>
        \A i \in 1..Len(result.data) :
            /\ result.data[i].intrinsic_value = ExpectedIntrinsic(result.data[i])
            /\ result.data[i].extrinsic_value =
                  FSub(result.data[i].option_price, result.data[i].intrinsic_value)

\* C3: no record of the returned data whose intrinsic_value is 0 carries a
\* premium_ratio: the ratio is computed only where intrinsic_value > 0, and is
\* missing (NaN) everywhere else.
C3_NoRatioForOtmRecords ==
    AnalyzeReturned =>
        \A i \in 1..Len(result.data) :
            result.data[i].intrinsic_value = Zero => IsNaN(result.data[i].premium_ratio)

\* C4: when the joined records have a non-empty ITM subset and an empty OTM
\* subset, average_premium_ratio is the mean ITM premium_ratio, average_premium
\* is the mean ITM option_price, and neither is NaN.
C4_ItmOnlyBlendIsItmAverage ==
    (AnalyzeReturned /\ ItmOptions(result.data) # <<>> /\ OtmOptions(result.data) = <<>>) =>
        /\ result.average_premium_ratio = Mean(Ratios(ItmOptions(result.data)))
        /\ result.average_premium = Mean(Prices(ItmOptions(result.data)))
        /\ ~IsNaN(result.average_premium_ratio)
        /\ ~IsNaN(result.average_premium)

\* C5: when the option-bar fetch of a ladder strike raises, the call does not
\* abort: every ladder strike is still fetched and the call returns a result.
C5_FetchFailureTolerated ==
    failed # {} =>
        /\ outcome # "raised"
        /\ (pc = "done" => (Len(fetched) = LadderSize /\ AnalyzeReturned))

DeltaRan == delta_results # NoResults

ThetaRan == theta_results # NoResults

\* a row after the first (which diff() always loses) whose volume ratio is finite
HasUsableRow ==
    \E i \in 2..NRows(pristine_df) : pristine_df.rows[i]["underlying_volume"] # Zero

\* C6: in calculate_delta no row with a non-finite feature value reaches the
\* regression, and rows with a zero underlying_volume do not make the call
\* raise: it completes on the remaining rows.
C6_ZeroVolumeRowsDropped ==
    DeltaRan =>
        /\ AllFinite(delta_results.X, delta_results.y)
        /\ (HasUsableRow => delta_results.outcome = "fitted")

FewRows(r) == Len(r.X) <= Len(r.features)

\* C7: calculate_delta and calculate_theta never return fitted coefficients
\* when the rows surviving the drop are no more than the feature columns.
C7_DegenerateFitReported ==
    /\ (DeltaRan /\ FewRows(delta_results)) => delta_results.outcome # "fitted"
    /\ (ThetaRan /\ FewRows(theta_results)) => theta_results.outcome # "fitted"

UnderlyingFetchedEmpty ==
    a_args # NoArgs /\ pc # "underlying" /\ underlying_aggs = <<>>

\* C8: when the underlying daily-bar fetch returns an empty series,
\* analyze_option_premiums returns the empty result (NaN, NaN, no data)
\* without raising and without fetching any option bars.
C8_EmptyUnderlyingGivesSentinel ==
    UnderlyingFetchedEmpty =>
        /\ result = EmptyResult
        /\ fetched = <<>>
        /\ outcome # "raised"

C8_Witness ==
    /\ UnderlyingFetchedEmpty
    /\ entry = "analyze_option_premiums"
    /\ outcome = "returned"
    /\ result = EmptyResult

\* C9: calculate_delta leaves the caller's merged table unchanged, and
\* calculate_theta, run after it, fits the rows and returns the values it
\* would on the merged table calculate_delta never saw.
C9_DeltaLeavesTableUnchanged ==
    /\ (delta_results.outcome = "fitted" /\ ~ThetaRan) => merged_df = pristine_df
    /\ ThetaRan => theta_results = calculate_theta(pristine_df).results

\* C10: on every normal return of analyze_option_premiums the returned
\* average_premium_ratio is NaN; every OTM record has intrinsic_value 0, so the
\* mean OTM intrinsic_value the blend divides by is 0.
C10_AveragePremiumRatioIsNaN ==
    AnalyzeReturned =>
        /\ IsNaN(result.average_premium_ratio)
        /\ \A i \in 1..Len(OtmOptions(result.data)) :
              OtmOptions(result.data)[i].intrinsic_value = Zero
        /\ (OtmOptions(result.data) # <<>> =>
              Mean(Intrinsics(OtmOptions(result.data))) = Zero)

\* both subsets non-empty, with a regression line through several ITM strikes
C10_Witness ==
    /\ AnalyzeReturned
    /\ Len(ItmOptions(result.data)) >= 2
    /\ OtmOptions(result.data) # <<>>
    /\ IsFinite(result.average_premium)

====
